---- MODULE Spec2Model ----
(***************************************************************************)
(* Model of txtgen/modules/decoders/rnn_decoders.py: BasicRNNDecoder and   *)
(* AttentionRNNDecoder, driven through construct -> initialize -> step* -> *)
(* finalize, plus the output_size / output_dtype properties and the static *)
(* default_hparams methods.                                                *)
(*                                                                         *)
(* Tensors are records [size, val, op]: size is the last dimension, val an *)
(* abstract content, op the index (within the run) of the cell application *)
(* that produced the value, 0 for values that come from outside the cell.  *)
(* Python None is the record NoneValue where it can meet a dictionary and  *)
(* the string "None" inside dictionaries.  A raised exception is the name  *)
(* of its class in the err field of the call's result.                     *)
(***************************************************************************)
EXTENDS Integers, Sequences, FiniteSets, TLC

VARIABLES phase, dec, time, inputs, state, finished, outputs, cellCalls,
          ret, firstInit, defaults

vars == <<phase, dec, time, inputs, state, finished, outputs, cellCalls,
          ret, firstInit, defaults>>

\* ---------------------------------------------------------------- bounds
MaxSteps == 2
MaxVal == 1
MaxSize == 2
MaxCalls == 2

Vals == 0..MaxVal
Sizes == 1..MaxSize

\* ------------------------------------------------------- python helpers
DictSet(d, k, v) == [x \in (DOMAIN d) \cup {k} |-> IF x = k THEN v ELSE d[x]]

DictDel(d, k) == [x \in (DOMAIN d) \ {k} |-> d[x]]

NoneValue == [isNone |-> TRUE]

IsNone(x) == "isNone" \in DOMAIN x

\* collections.namedtuple: the constructor accepts exactly its field names
NamedTuple(fields, kwargs) ==
    IF DOMAIN kwargs = fields
    THEN [err |-> "none", val |-> kwargs]
    ELSE [err |-> "TypeError", val |-> NoneValue]

BasicRNNDecoderOutputFields == {"rnn_output", "sample_id"}

AttentionRNNDecoderOutputFields ==
    {"rnn_output", "sample_id", "cell_output",
     "attention_scores", "attention_context"}

\* ------------------------------------------------------ hyperparameters
RNNDecoderBase_default_hparams ==
    [rnn_cell |-> "default_rnn_cell_hparams()",
     use_embedding |-> TRUE,
     embedding |-> "default_embedding_hparams()",
     helper_train |-> "default_helper_train_hparams()",
     max_decoding_length_train |-> "None",
     helper_infer |-> "default_helper_infer_hparams()",
     max_decoding_length_infer |-> "None",
     name |-> "rnn_decoder"]

\* variant: the name entry is left as the base class set it
BasicRNNDecoder_default_hparams_unnamed == RNNDecoderBase_default_hparams

BasicRNNDecoder_default_hparams ==
    DictSet(RNNDecoderBase_default_hparams, "name", "basic_rnn_decoder")

AttentionRNNDecoder_default_hparams ==
    DictSet(DictSet(RNNDecoderBase_default_hparams,
                    "name", "attention_rnn_decoder"),
            "attention",
            [type |-> "LuongAttention",
             kwargs |-> [num_units |-> 512,
                         probability_fn |-> "tensorflow.nn.softmax"],
             attention_layer_size |-> "None",
             alignment_history |-> FALSE,
             output_attention |-> TRUE])

DefaultHparamsOf(kind) ==
    IF kind = "basic" THEN BasicRNNDecoder_default_hparams
    ELSE AttentionRNNDecoder_default_hparams

\* A hyperparameter dictionary written against the keys the constructor
\* reads: attention_layer_size a, output_attention b.
CustomAttentionHparams(a, b) ==
    DictSet(AttentionRNNDecoder_default_hparams, "attention",
            [class |-> "LuongAttention",
             params |-> [probability_fn |-> "tensorflow.nn.softmax"],
             wrapper_params |-> [attention_layer_size |-> a,
                                 alignment_history |-> FALSE,
                                 output_attention |-> b]])

\* ------------------------------------------------- cells and attention
RNNCell(n) == [type |-> "RNNCell", output_size |-> n]

\* get_instance(attention_class, attention_kwargs, attention_modules)
AttentionMechanism(class, kwargs) ==
    [class |-> class,
     num_units |-> kwargs["num_units"],
     alignments_size |-> kwargs["memory"]]

\* AttentionWrapper(self._cell, attention_mechanism, **wrapper_params)
AttentionWrapper(cell, mechanism, wrapper_params) ==
    [type |-> "AttentionWrapper",
     _cell |-> cell,
     mechanism |-> mechanism,
     attention_layer_size |-> wrapper_params["attention_layer_size"],
     output_attention |-> wrapper_params["output_attention"]]

IsWrapper(cell) == cell["type"] = "AttentionWrapper"

\* cell.output_size
CellOutputSize(cell) ==
    IF IsWrapper(cell)
    THEN IF cell["output_attention"]
         THEN cell["attention_layer_size"]
         ELSE cell["_cell"]["output_size"]
    ELSE cell["output_size"]

\* cell.state_size of the wrapper (an AttentionWrapperState of sizes)
WrapperStateSize(cell) ==
    [cell_state |-> cell["_cell"]["output_size"],
     alignments |-> cell["mechanism"]["alignments_size"],
     attention |-> cell["attention_layer_size"]]

Tensor(size, val, op) == [size |-> size, val |-> val, op |-> op]

\* one application of a plain RNN cell: (output, new state)
RNNCellCall(cell, in, st, id) ==
    [output |-> Tensor(cell["output_size"], (in + st["val"]) % (MaxVal + 1), id),
     state |-> [val |-> (in + st["val"] + 1) % (MaxVal + 1), op |-> id]]

\* one application of the attention wrapper: the inner cell runs on the
\* inputs joined with the previous attention, the mechanism scores the
\* memory, and the output is the attention or the inner cell's output
WrapperCall(cell, in, st, id) ==
    LET cell_inputs == (in + st["attention"]["val"]) % (MaxVal + 1)
        inner == RNNCellCall(cell["_cell"], cell_inputs, st["cell_state"], id)
        alignments == Tensor(cell["mechanism"]["alignments_size"],
                             inner["output"]["val"], id)
        attention == Tensor(cell["attention_layer_size"],
                            (inner["output"]["val"] + 1) % (MaxVal + 1), id)
    IN [output |-> IF cell["output_attention"] THEN attention
                   ELSE inner["output"],
        state |-> [cell_state |-> inner["state"],
                   alignments |-> alignments,
                   attention |-> attention]]

\* self._cell(inputs, state)
CellCall(cell, in, st, id) ==
    IF IsWrapper(cell) THEN WrapperCall(cell, in, st, id)
    ELSE RNNCellCall(cell, in, st, id)

\* the zero / caller-supplied initial state matching the cell's structure
InitialStates(cell) ==
    IF IsWrapper(cell)
    THEN {[cell_state |-> [val |-> v, op |-> 0],
           alignments |-> Tensor(cell["mechanism"]["alignments_size"], 0, 0),
           attention |-> Tensor(cell["attention_layer_size"], 0, 0)] :
          v \in Vals}
    ELSE {[val |-> v, op |-> 0] : v \in Vals}

\* tf.contrib.layers.fully_connected(inputs, num_outputs)
FullyConnected(in, num_outputs) == Tensor(num_outputs, in["val"], in["op"])

\* --------------------------------------------------------------- helpers
Helpers ==
    {[type |-> "TrainingHelper", sequence_length |-> MaxSteps],
     [type |-> "GreedyEmbeddingHelper", end_token |-> 0],
     [type |-> "CustomHelper"]}

\* the helpers whose next_inputs returns the state it was given
PassThroughHelpers == {h \in Helpers : h["type"] # "CustomHelper"}

\* the state a CustomHelper hands back: the recurrent content cleared
ResetState(st) ==
    IF "cell_state" \in DOMAIN st
    THEN [st EXCEPT !["cell_state"]["val"] = 0]
    ELSE [st EXCEPT !["val"] = 0]

\* helper.initialize() -> (finished, first_inputs)
HelperInitialize(h) ==
    IF h["type"] = "TrainingHelper"
    THEN <<h["sequence_length"] = 0, 0>>
    ELSE <<FALSE, MaxVal>>

\* helper.sample(time, outputs, state) -> sample_ids (argmax of outputs)
HelperSample(h, t, outs, st) ==
    Tensor(0, outs["val"] % outs["size"], outs["op"])

\* helper.next_inputs(time, outputs, state, sample_ids)
\*   -> (finished, next_inputs, next_state)
HelperNextInputs(h, t, outs, st, sample_ids) ==
    IF h["type"] = "TrainingHelper"
    THEN <<t + 1 >= h["sequence_length"], (t + 1) % (MaxVal + 1), st>>
    ELSE IF h["type"] = "GreedyEmbeddingHelper"
    THEN <<sample_ids["val"] = h["end_token"],
           sample_ids["val"] % (MaxVal + 1), st>>
    ELSE <<FALSE, sample_ids["val"] % (MaxVal + 1), ResetState(st)>>

\* ---------------------------------------------------------- construction
\* RNNDecoderBase.__init__ followed by the base's build step: the decoder
\* keeps the cell, the vocabulary size, the hyperparameters resolved
\* against the class defaults, the helper and the initial state
RNNDecoderBase_init(kind, cell, vocab_size, hparams) ==
    [kind |-> kind,
     err |-> "none",
     err_key |-> "none",
     cell |-> cell,
     vocab_size |-> vocab_size,
     hparams |-> IF IsNone(hparams) THEN DefaultHparamsOf(kind) ELSE hparams,
     raw_hparams |-> hparams]

\* BasicRNNDecoder.__init__
BasicRNNDecoder_init(cell, vocab_size, hparams) ==
    RNNDecoderBase_init("basic", cell, vocab_size, hparams)

\* the keys AttentionRNNDecoder.__init__ subscripts hparams['attention'] with
InitAttentionKeysRead == <<"class", "params", "wrapper_params">>

Raise(d, e, k) == [d EXCEPT !["err"] = e, !["err_key"] = k]

\* AttentionRNNDecoder.__init__
AttentionRNNDecoder_init(n_hidden, keys, lengths, cell, vocab_size, hparams) ==
    LET attention_keys == keys
        attention_values_length == lengths
        base == RNNDecoderBase_init("attention", cell, vocab_size, hparams)
    IN  IF IsNone(hparams) THEN Raise(base, "TypeError", "attention")
        ELSE IF "attention" \notin DOMAIN hparams
        THEN Raise(base, "KeyError", "attention")
        ELSE
        LET att == hparams["attention"]
            missing == {i \in 1..Len(InitAttentionKeysRead) :
                           InitAttentionKeysRead[i] \notin DOMAIN att}
        IN  IF missing # {}
            THEN Raise(base, "KeyError",
                       InitAttentionKeysRead[
                           CHOOSE i \in missing : \A j \in missing : i <= j])
            ELSE
            LET attention_kwargs ==
                    DictSet(DictSet(DictSet(att["params"],
                        "num_units", n_hidden),
                        "memory_sequence_length", attention_values_length),
                        "memory", attention_keys)
                attention_mechanism ==
                    AttentionMechanism(att["class"], attention_kwargs)
                attn_cell == AttentionWrapper(base["cell"],
                                 attention_mechanism, att["wrapper_params"])
            IN  [base EXCEPT
                    !["cell"] = attn_cell,
                    !["raw_hparams"] =
                        DictSet(hparams, "attention",
                                DictSet(att, "params", attention_kwargs))]

\* the base's build step: the helper and the initial state of this decode
RNNDecoderBase_build(d, helper, initial_state) ==
    d @@ [helper |-> helper, initial_state |-> initial_state]

\* ------------------------------------------------------------ operations
\* BasicRNNDecoder.initialize: helper.initialize() + (self._initial_state,)
BasicInitialize(d) == HelperInitialize(d["helper"]) \o <<d["initial_state"]>>

\* variant: the decode starts from a cleared state, not the configured one
AttentionInitializeCleared(d) ==
    LET helper_init == HelperInitialize(d["helper"])
    IN  <<helper_init[1], helper_init[2], ResetState(d["initial_state"])>>

\* AttentionRNNDecoder.initialize
AttentionInitialize(d) ==
    LET helper_init == HelperInitialize(d["helper"])
    IN  <<helper_init[1], helper_init[2], d["initial_state"]>>

\* variant: the helper is handed the incoming state
BasicStepStaleState(d, t, in, st, calls) ==
    LET c1 == CellCall(d["cell"], in, st, calls + 1)
        logits == FullyConnected(c1["output"], d["vocab_size"])
        sample_ids == HelperSample(d["helper"], t, logits, st)
        ni == HelperNextInputs(d["helper"], t, logits, st, sample_ids)
        outs == [rnn_output |-> logits, sample_id |-> sample_ids]
    IN  [val |-> <<outs, ni[3], ni[2], ni[1]>>,
         calls |-> 1,
         helper_state |-> st,
         helper_ret |-> ni]

\* BasicRNNDecoder.step; calls is the number of cell applications so far
BasicStep(d, t, in, st, calls) ==
    LET c1 == CellCall(d["cell"], in, st, calls + 1)
        cell_outputs == c1["output"]
        cell_state == c1["state"]
        logits == FullyConnected(cell_outputs, d["vocab_size"])
        sample_ids == HelperSample(d["helper"], t, logits, cell_state)
        ni == HelperNextInputs(d["helper"], t, logits, cell_state, sample_ids)
        outs == [rnn_output |-> logits, sample_id |-> sample_ids]
    IN  [val |-> <<outs, ni[3], ni[2], ni[1]>>,
         calls |-> 1,
         helper_state |-> cell_state,
         helper_ret |-> ni]

\* variant: the helper is handed the inner cell state of the wrapper state
AttentionStepInnerState(d, t, in, st, calls) ==
    LET c1 == CellCall(d["cell"], in, st, calls + 1)
        c2 == CellCall(d["cell"], in, st, calls + 2)
        wrapper_state == c2["state"]
        cell_state == wrapper_state["cell_state"]
        logits == FullyConnected(c1["output"], d["vocab_size"])
        sample_ids == HelperSample(d["helper"], t, logits, cell_state)
        ni == HelperNextInputs(d["helper"], t, logits, cell_state, sample_ids)
        outs == [rnn_output |-> logits,
                 sample_id |-> sample_ids,
                 cell_output |-> c2["output"],
                 attention_scores |-> wrapper_state["alignments"],
                 attention_context |-> wrapper_state["attention"]]
    IN  [val |-> <<outs, ni[3], ni[2], ni[1]>>,
         calls |-> 2,
         helper_state |-> cell_state,
         helper_ret |-> ni]

\* AttentionRNNDecoder.step
AttentionStep(d, t, in, st, calls) ==
    LET c1 == CellCall(d["cell"], in, st, calls + 1)
        cell_outputs == c1["output"]
        c2 == CellCall(d["cell"], in, st, calls + 2)
        wrapper_outputs == c2["output"]
        wrapper_state == c2["state"]
        cell_state == wrapper_state["cell_state"]
        attention_scores == wrapper_state["alignments"]
        attention_context == wrapper_state["attention"]
        logits == FullyConnected(cell_outputs, d["vocab_size"])
        sample_ids == HelperSample(d["helper"], t, logits, cell_state)
        ni == HelperNextInputs(d["helper"], t, logits, wrapper_state,
                               sample_ids)
        outs == [rnn_output |-> logits,
                 sample_id |-> sample_ids,
                 cell_output |-> wrapper_outputs,
                 attention_scores |-> attention_scores,
                 attention_context |-> attention_context]
    IN  [val |-> <<outs, ni[3], ni[2], ni[1]>>,
         calls |-> 2,
         helper_state |-> wrapper_state,
         helper_ret |-> ni]

\* variant: the outputs are cut to the sequence length
FinalizeTruncated(outs, final_state, sequence_lengths) ==
    <<SubSeq(outs, 1, sequence_lengths), final_state>>

\* finalize(outputs, final_state, sequence_lengths), the same in both classes
Finalize(outs, final_state, sequence_lengths) == <<outs, final_state>>

\* TensorShape([])
ScalarShape == << >>

\* BasicRNNDecoder.output_size
BasicOutputSize(d) ==
    NamedTuple(BasicRNNDecoderOutputFields,
               [rnn_output |-> d["vocab_size"], sample_id |-> ScalarShape])

\* BasicRNNDecoder.output_dtype
BasicOutputDtype(d) ==
    NamedTuple(BasicRNNDecoderOutputFields,
               [rnn_output |-> "float32", sample_id |-> "int32"])

\* AttentionRNNDecoder.output_size
AttentionOutputSize(d) ==
    LET statesize == WrapperStateSize(d["cell"])
    IN  NamedTuple(AttentionRNNDecoderOutputFields,
                   [rnn_output |-> d["vocab_size"],
                    sample_id |-> ScalarShape,
                    cell_output |-> d["cell"]["_cell"]["output_size"],
                    attention_scores |-> statesize["alignments"],
                    attention_context |-> statesize["attention"]])

\* AttentionRNNDecoder.output_dtype
AttentionOutputDtype(d) ==
    NamedTuple(AttentionRNNDecoderOutputFields,
               [logits |-> "float32",
                predicted_ids |-> "int32",
                cell_output |-> "float32",
                attention_scores |-> "float32",
                attention_context |-> "float32"])

\* --------------------------------------------------------------- actions
NoRet == [op |-> "none", err |-> "none"]

Init ==
    /\ phase = "new"
    /\ dec = [kind |-> "none"]
    /\ time = 0
    /\ inputs = 0
    /\ state = [val |-> 0, op |-> 0]
    /\ finished = FALSE
    /\ outputs = << >>
    /\ cellCalls = 0
    /\ ret = NoRet
    /\ firstInit = [set |-> FALSE]
    /\ defaults = << >>

\* BasicRNNDecoder.default_hparams()
CallBasicDefaultHparams ==
    /\ Len(defaults) < MaxCalls
    /\ defaults' = Append(defaults, [cls |-> "basic",
                                     val |-> BasicRNNDecoder_default_hparams])
    /\ UNCHANGED <<phase, dec, time, inputs, state, finished, outputs,
                   cellCalls, ret, firstInit>>

\* AttentionRNNDecoder.default_hparams()
CallAttentionDefaultHparams ==
    /\ Len(defaults) < MaxCalls
    /\ defaults' = Append(defaults,
                          [cls |-> "attention",
                           val |-> AttentionRNNDecoder_default_hparams])
    /\ UNCHANGED <<phase, dec, time, inputs, state, finished, outputs,
                   cellCalls, ret, firstInit>>

Constructed(d) ==
    /\ dec' = d
    /\ phase' = IF d["err"] = "none" THEN "constructed" ELSE "error"
    /\ ret' = [op |-> "__init__", err |-> d["err"]]
    /\ UNCHANGED <<time, inputs, state, finished, outputs, cellCalls,
                   firstInit, defaults>>

\* BasicRNNDecoder(cell, vocab_size=..., hparams=...) and its build
ConstructBasic ==
    /\ phase = "new"
    /\ \E n \in Sizes, vocab_size \in Sizes, helper \in Helpers,
          hparams \in {NoneValue, BasicRNNDecoder_default_hparams} :
         LET cell == RNNCell(n)
         IN  \E initial_state \in InitialStates(cell) :
               Constructed(RNNDecoderBase_build(
                   BasicRNNDecoder_init(cell, vocab_size, hparams),
                   helper, initial_state))

AttentionHparamsInputs ==
    {NoneValue, AttentionRNNDecoder_default_hparams}
    \cup {CustomAttentionHparams(a, b) : a \in Sizes, b \in BOOLEAN}

\* AttentionRNNDecoder(n_hidden, attention_keys, ..., hparams=...) and its
\* build; a constructor that raised leaves no decoder to build
ConstructAttention ==
    /\ phase = "new"
    /\ \E n \in Sizes, vocab_size \in Sizes, helper \in Helpers,
          attention_keys \in Sizes, hparams \in AttentionHparamsInputs :
         LET d == AttentionRNNDecoder_init(n, attention_keys, attention_keys,
                                           RNNCell(n), vocab_size, hparams)
         IN  IF d["err"] # "none"
             THEN Constructed(d)
             ELSE \E initial_state \in InitialStates(d["cell"]) :
                    Constructed(RNNDecoderBase_build(d, helper,
                                                     initial_state))

\* the decode loop takes the triple initialize returned
Initialized(triple) ==
    /\ ret' = [op |-> "initialize", err |-> "none", val |-> triple]
    /\ firstInit' = IF firstInit["set"] THEN firstInit
                    ELSE [set |-> TRUE, val |-> triple]
    /\ finished' = triple[1]
    /\ inputs' = triple[2]
    /\ state' = triple[3]
    /\ time' = 0
    /\ outputs' = << >>
    /\ cellCalls' = 0
    /\ phase' = "decoding"
    /\ UNCHANGED <<dec, defaults>>

InitializeBasic ==
    /\ phase \in {"constructed", "decoding"}
    /\ dec["kind"] = "basic"
    /\ Initialized(BasicInitialize(dec))

InitializeAttention ==
    /\ phase \in {"constructed", "decoding"}
    /\ dec["kind"] = "attention"
    /\ Initialized(AttentionInitialize(dec))

\* the decode loop takes (outputs, next_state, next_inputs, finished)
Stepped(r) ==
    /\ ret' = [op |-> "step", err |-> "none",
               args |-> [time |-> time, inputs |-> inputs, state |-> state,
                         calls |-> cellCalls],
               val |-> r["val"],
               calls |-> r["calls"],
               helper_state |-> r["helper_state"],
               helper_ret |-> r["helper_ret"]]
    /\ outputs' = Append(outputs, r["val"][1])
    /\ state' = r["val"][2]
    /\ inputs' = r["val"][3]
    /\ finished' = r["val"][4]
    /\ time' = time + 1
    /\ cellCalls' = cellCalls + r["calls"]
    /\ UNCHANGED <<phase, dec, firstInit, defaults>>

StepBasic ==
    /\ phase = "decoding"
    /\ dec["kind"] = "basic"
    /\ ~finished
    /\ time < MaxSteps
    /\ Stepped(BasicStep(dec, time, inputs, state, cellCalls))

StepAttention ==
    /\ phase = "decoding"
    /\ dec["kind"] = "attention"
    /\ ~finished
    /\ time < MaxSteps
    /\ Stepped(AttentionStep(dec, time, inputs, state, cellCalls))

\* finalize(outputs, final_state, sequence_lengths) at the end of the loop
FinalizeCall ==
    /\ phase = "decoding"
    /\ finished \/ time = MaxSteps
    /\ \E sequence_lengths \in 0..MaxSteps :
         ret' = [op |-> "finalize", err |-> "none",
                 args |-> [outputs |-> outputs, final_state |-> state,
                           sequence_lengths |-> sequence_lengths],
                 val |-> Finalize(outputs, state, sequence_lengths)]
    /\ phase' = "finalized"
    /\ UNCHANGED <<dec, time, inputs, state, finished, outputs, cellCalls,
                   firstInit, defaults>>

Property(name, r) ==
    /\ ret' = [op |-> name, err |-> r["err"], val |-> r["val"]]
    /\ UNCHANGED <<phase, dec, time, inputs, state, finished, outputs,
                   cellCalls, firstInit, defaults>>

Usable == phase \in {"constructed", "decoding", "finalized"}

GetBasicOutputSize ==
    /\ Usable /\ dec["kind"] = "basic"
    /\ Property("output_size", BasicOutputSize(dec))

GetBasicOutputDtype ==
    /\ Usable /\ dec["kind"] = "basic"
    /\ Property("output_dtype", BasicOutputDtype(dec))

GetAttentionOutputSize ==
    /\ Usable /\ dec["kind"] = "attention"
    /\ Property("output_size", AttentionOutputSize(dec))

GetAttentionOutputDtype ==
    /\ Usable /\ dec["kind"] = "attention"
    /\ Property("output_dtype", AttentionOutputDtype(dec))

Next ==
    \/ CallBasicDefaultHparams
    \/ CallAttentionDefaultHparams
    \/ ConstructBasic
    \/ ConstructAttention
    \/ InitializeBasic
    \/ InitializeAttention
    \/ StepBasic
    \/ StepAttention
    \/ FinalizeCall
    \/ GetBasicOutputSize
    \/ GetBasicOutputDtype
    \/ GetAttentionOutputSize
    \/ GetAttentionOutputDtype

Spec == Init /\ [][Next]_vars

\* ------------------------------------------------------------ properties
IsStepOf(kind) ==
    /\ ret["op"] = "step"
    /\ dec["kind"] = kind

OutputFieldsOf(kind) ==
    IF kind = "basic" THEN BasicRNNDecoderOutputFields
    ELSE AttentionRNNDecoderOutputFields

WrapperStateFields == {"cell_state", "alignments", "attention"}

\* C1: output_size and output_dtype of either decoder evaluate without error
\* and return a record with exactly the fields of the decoder's output type:
\* rnn_output float32 of size vocab_size, sample_id int32 of scalar shape,
\* and for the attention decoder three more float32 fields.
C1_OutputPropertiesWellFormed ==
    ret["op"] \in {"output_size", "output_dtype"} =>
        /\ ret["err"] = "none"
        /\ DOMAIN ret["val"] = OutputFieldsOf(dec["kind"])
        /\ ret["op"] = "output_size" =>
              /\ ret["val"]["rnn_output"] = dec["vocab_size"]
              /\ ret["val"]["sample_id"] = ScalarShape
        /\ ret["op"] = "output_dtype" =>
              /\ ret["val"]["sample_id"] = "int32"
              /\ \A f \in DOMAIN ret["val"] \ {"sample_id"} :
                    ret["val"][f] = "float32"

\* C2: constructing either decoder with hparams=None succeeds and the decoder
\* uses its class's default_hparams().
C2_NoneHparamsUsesDefaults ==
    (phase # "new" /\ IsNone(dec["raw_hparams"])) =>
        /\ dec["err"] = "none"
        /\ dec["hparams"] = DefaultHparamsOf(dec["kind"])

\* C3: an attention decoder built from the unmodified default_hparams()
\* constructs without a missing-key error, every key the constructor reads
\* from hparams["attention"] being a key of the default "attention" entry.
C3_DefaultAttentionKeysSuffice ==
    (/\ phase # "new"
     /\ dec["kind"] = "attention"
     /\ dec["raw_hparams"] = AttentionRNNDecoder_default_hparams) =>
        /\ dec["err"] = "none"
        /\ \A i \in 1..Len(InitAttentionKeysRead) :
              InitAttentionKeysRead[i] \in
                  DOMAIN AttentionRNNDecoder_default_hparams["attention"]

\* C4: the attention defaults without "attention" equal the basic defaults
\* except for "name" ("attention_rnn_decoder" / "basic_rnn_decoder"); the
\* basic defaults have no "attention" entry; each call returns the same value.
C4_CommonHparams ==
    \A i, j \in 1..Len(defaults) :
        LET a == defaults[i]
            b == defaults[j]
        IN  /\ a["cls"] = "basic" =>
                  /\ "attention" \notin DOMAIN a["val"]
                  /\ a["val"]["name"] = "basic_rnn_decoder"
            /\ a["cls"] = "attention" =>
                  /\ "attention" \in DOMAIN a["val"]
                  /\ a["val"]["name"] = "attention_rnn_decoder"
            /\ a["cls"] = b["cls"] => a["val"] = b["val"]
            /\ (a["cls"] = "attention" /\ b["cls"] = "basic") =>
                  DictDel(DictDel(a["val"], "attention"), "name")
                      = DictDel(b["val"], "name")

C4_Witness ==
    \E i, j \in 1..Len(defaults) :
        defaults[i]["cls"] = "attention" /\ defaults[j]["cls"] = "basic"

\* C5: initialize returns exactly (finished, first_inputs, initial_state), the
\* first two from helper.initialize(), the third the configured initial
\* state; it leaves the decoder unchanged and a repeated call returns the
\* same triple.
C5_InitializeTriple ==
    /\ [](ret["op"] = "initialize" =>
            /\ Len(ret["val"]) = 3
            /\ ret["val"][1] = HelperInitialize(dec["helper"])[1]
            /\ ret["val"][2] = HelperInitialize(dec["helper"])[2]
            /\ ret["val"][3] = dec["initial_state"]
            /\ ret["val"] = firstInit["val"])
    /\ [][ret'["op"] = "initialize" => dec' = dec]_vars

C5_Witness ==
    /\ ret["op"] = "initialize"
    /\ dec["kind"] = "attention"
    /\ dec["initial_state"]["cell_state"]["val"] # 0

\* C6: finalize returns exactly the pair (outputs, final_state) it was given,
\* for every sequence_lengths, and leaves the decoder unchanged.
C6_FinalizeIdentity ==
    /\ [](ret["op"] = "finalize" =>
            ret["val"] = <<ret["args"]["outputs"],
                           ret["args"]["final_state"]>>)
    /\ [][ret'["op"] = "finalize" => dec' = dec]_vars

C6_Witness ==
    /\ ret["op"] = "finalize"
    /\ Len(ret["args"]["outputs"]) > ret["args"]["sequence_lengths"]

\* C7: in BasicRNNDecoder.step the returned (finished, next_inputs,
\* next_state) is the triple helper.next_inputs returned for this step, the
\* sample_id is helper.sample of this step's logits, and the state handed to
\* the helper is the state the cell produced from (inputs, state), never the
\* incoming state.
C7_BasicStepDelegates ==
    IsStepOf("basic") =>
        LET a == ret["args"]
            c == CellCall(dec["cell"], a["inputs"], a["state"], a["calls"] + 1)
            out == ret["val"][1]
        IN  /\ ret["helper_state"] = c["state"]
            /\ ret["helper_state"] # a["state"]
            /\ out["rnn_output"] = FullyConnected(c["output"],
                                                  dec["vocab_size"])
            /\ out["sample_id"] = HelperSample(dec["helper"], a["time"],
                                      out["rnn_output"], c["state"])
            /\ ret["helper_ret"] = HelperNextInputs(dec["helper"], a["time"],
                                      out["rnn_output"], c["state"],
                                      out["sample_id"])
            /\ ret["val"][4] = ret["helper_ret"][1]
            /\ ret["val"][3] = ret["helper_ret"][2]
            /\ ret["val"][2] = ret["helper_ret"][3]
            /\ dec["helper"] \in PassThroughHelpers =>
                  ret["val"][2] = c["state"]

C7_Witness ==
    /\ IsStepOf("basic")
    /\ dec["helper"] \in PassThroughHelpers
    /\ ret["val"][2]["val"] # ret["args"]["state"]["val"]

\* C8: in a run of the attention decoder every state a step accepts has the
\* wrapper's structure; with a pass-through helper the next_state of a step is
\* the complete wrapper state produced in that step (inner cell state,
\* alignments and attention), not the inner cell state alone.
C8_AttentionStateStructure ==
    /\ (phase = "decoding" /\ dec["kind"] = "attention") =>
          DOMAIN state = WrapperStateFields
    /\ IsStepOf("attention") =>
          /\ DOMAIN ret["args"]["state"] = WrapperStateFields
          /\ DOMAIN ret["val"][2] = WrapperStateFields
          /\ dec["helper"] \in PassThroughHelpers =>
                \E id \in 1..ret["calls"] :
                    ret["val"][2] =
                        CellCall(dec["cell"], ret["args"]["inputs"],
                                 ret["args"]["state"],
                                 ret["args"]["calls"] + id)["state"]

C8_Witness ==
    /\ IsStepOf("attention")
    /\ dec["helper"] \in PassThroughHelpers
    /\ ret["args"]["time"] = 1
    /\ phase = "decoding"

\* C9: the size output_size declares for cell_output equals the size of the
\* value step emits in cell_output, for every wrapper configuration.
C9_CellOutputSizeMatches ==
    IsStepOf("attention") =>
        ret["val"][1]["cell_output"]["size"]
            = AttentionOutputSize(dec)["val"]["cell_output"]

\* C10: each AttentionRNNDecoder.step applies the cell exactly once, every
\* emitted field and the state passed to the helper derive from that one
\* application, and after n steps the cell has been applied n times.
C10_SingleCellApplication ==
    IsStepOf("attention") =>
        LET out == ret["val"][1]
            id == ret["args"]["calls"] + 1
        IN  /\ ret["calls"] = 1
            /\ out["rnn_output"]["op"] = id
            /\ out["cell_output"]["op"] = id
            /\ out["attention_scores"]["op"] = id
            /\ out["attention_context"]["op"] = id
            /\ ret["helper_state"]["cell_state"]["op"] = id
            /\ cellCalls = time

====
